---- MODULE Spec2Model ----
(***************************************************************************)
(* Model of timestate.Monitor (monitor.go): a keyed store with TTL         *)
(* expiration.  The storage table `items` maps a key to an item; the same  *)
(* item is referenced from the min-heap `heap`; the goroutine `run` sweeps *)
(* the heap on every ticker tick and reports expired keys on `expiredCh`.  *)
(*                                                                         *)
(* Time.  Every instant kept in the state (item.Expires, the `expires`     *)
(* local of watch, the `now` local of checkExpirations) is                 *)
(* stored as its distance from the present instant: time.Now() is 0, an    *)
(* instant in the future is positive, an instant that has passed is <= 0.  *)
(* The passage of one time unit (ClockTick) lowers every stored instant by *)
(* one.  The code only ever compares instants (Before, After) and only     *)
(* creates instants >= time.Now(), so of the instants that have passed     *)
(* only their order matters; ClockTick keeps them as consecutive ranks     *)
(* 0, -1, -2, ... in that order, which keeps the state space finite while  *)
(* time runs forever.                                                      *)
(***************************************************************************)
EXTENDS Integers, Sequences, FiniteSets

\* ---------------------------------------------------------------- bounds
Keys == {"a", "b", "c", "d"}     \* keys (type K)
Values == {1, 2}                 \* values the callers use (type T)
MaxItems == 2                    \* item allocations (new entries) explored
ChanCap == 1                     \* capacity of the notification channel

\* --------------------------------------------- construction parameters
DefaultTTL == 2                  \* defaultTTL, in units of checkInterval
CheckInterval == 1               \* checkInterval (the time unit)
\* time that may pass in watch between time.Now() and mu.Lock(): less than the
\* TTL, so that a new Expires is never an instant that has already passed
Delays == 0..(DefaultTTL - 1)

\* addresses of allocated items (LiveSpec allocates one item per key)
Ptrs == 1..(IF MaxItems > Cardinality(Keys) THEN MaxItems ELSE Cardinality(Keys))
Nil == 0                         \* the nil pointer / absent map entry
NoKey == "-"
NoItem == [Key |-> NoKey, Value |-> 0, Expires |-> 0, removed |-> FALSE]

VARIABLES
  mem,        \* the items on the Go heap: pointer -> item (NoItem if unallocated)
  items,      \* Monitor.items: key -> pointer (Nil if the key is not in the map)
  heap,       \* Monitor.heap: sequence of pointers, heap[1] is Go's heap[0]
  mu,         \* Monitor.mu: TRUE while checkExpirations holds the lock
  expiredCh,  \* buffer of the notification channel
  tickerC,    \* checkTicker.C holds a tick (a ticker channel buffers one)
  phase,      \* time elapsed since the ticker last fired
  ctxDone,    \* the context passed to Start is cancelled
  pc,         \* position of the goroutine run: "idle" (select), "lock"
              \* (checkExpirations before mu.Lock), "loop", "stopped"
  now,        \* the local `now` of checkExpirations
  failed,     \* history: a send of the sweep in progress failed
  created,    \* history: per key, Watch calls that created a new entry
  sent,       \* history: per key, notifications sent on expiredCh
  live,       \* history: per key, created and since then neither removed nor sent
  lastWatch,  \* history: per key in the table, value of the latest Watch and
              \* expires of the latest Watch that returned true; and whether
              \* the latest entry of the key was refreshed before it expired
  ev          \* history: the last step, if a Watch (with its arguments), a
              \* Remove or a step of the sweep (with the key popped), and its
              \* outcome (value returned, key was tracked, send succeeded)

vars == <<mem, items, heap, mu, expiredCh, tickerC, phase, ctxDone, pc, now,
          failed, created, sent, live, lastWatch, ev>>

NoWatch == [value |-> 0, expires |-> 0, refreshed |-> FALSE]
Ev(op, key, value, ok) == [op |-> op, key |-> key, value |-> value, ok |-> ok]
Other == Ev("-", NoKey, 0, FALSE)          \* a step whose outcome no property reads

\* --------------------------------------------------- items (heap.Interface)
\* items.Less: h[i].Expires.Before(h[j].Expires); i, j are Go (0-based) indexes
Less(m, h, i, j) == m[h[i + 1]].Expires < m[h[j + 1]].Expires

\* items.Swap
Swap(h, i, j) == [h EXCEPT ![i + 1] = h[j + 1], ![j + 1] = h[i + 1]]

\* container/heap.up
RECURSIVE up(_, _, _)
up(m, h, j) ==
  LET i == IF j = 0 THEN 0 ELSE (j - 1) \div 2  \* Go's (j-1)/2 truncates to 0
  IN IF i = j \/ ~Less(m, h, j, i) THEN h ELSE up(m, Swap(h, i, j), i)

\* container/heap.down; returns the heap and the index where the element stopped
RECURSIVE down(_, _, _, _)
down(m, h, i, n) ==
  LET j1 == 2 * i + 1
      j2 == j1 + 1
      j == IF j2 < n /\ Less(m, h, j2, j1) THEN j2 ELSE j1
  IN IF j1 >= n THEN [h |-> h, i |-> i]
     ELSE IF ~Less(m, h, j, i) THEN [h |-> h, i |-> i]
     ELSE down(m, Swap(h, i, j), j, n)

\* container/heap.Fix(h, i): if !down(h, i, n) { up(h, i) }
HeapFix(m, h, i) ==
  LET d == down(m, h, i, Len(h))
  IN IF d.i > i THEN d.h ELSE up(m, h, i)

\* container/heap.Push(h, x): items.Push appends, then up(h, n-1)
HeapPush(m, h, x) == up(m, Append(h, x), Len(h))

\* container/heap.Pop(h): Swap(0, n-1); down(0, n-1); items.Pop drops the last
HeapPop(m, h) ==
  LET n == Len(h) - 1
  IN SubSeq(down(m, Swap(h, 0, n), 0, n).h, 1, n)

\* the index heap.Fix is called with in watch
FixIndex(h, it) == 0

\* ------------------------------------------------------------- helpers
InHeap(h) == {h[i] : i \in 1..Len(h)}
\* an item no longer referenced from the map or the heap is garbage
Collect(m, its, h) ==
  [p \in Ptrs |-> IF p \in InHeap(h) \/ \E k \in Keys : its[k] = p
                  THEN m[p] ELSE NoItem]

Init ==
  /\ mem = [p \in Ptrs |-> NoItem]
  /\ items = [k \in Keys |-> Nil]
  /\ heap = <<>>
  /\ mu = FALSE
  /\ expiredCh = <<>>
  /\ tickerC = FALSE
  /\ phase = 0
  /\ ctxDone = FALSE
  /\ pc = "idle"
  /\ now = 0
  /\ failed = FALSE
  /\ created = [k \in Keys |-> 0]
  /\ sent = [k \in Keys |-> 0]
  /\ live = [k \in Keys |-> FALSE]
  /\ lastWatch = [k \in Keys |-> NoWatch]
  /\ ev = Other

\* --------------------------------------------------------------- callers
RECURSIVE Sum(_, _)
Sum(f, S) == IF S = {} THEN 0
             ELSE LET k == CHOOSE x \in S : TRUE IN f[k] + Sum(f, S \ {k})
TotalCreated == Sum(created, Keys)

\* watch, line 51: expires := time.Now().Add(ttl).  The instant is read before
\* the lock is taken; d is the time that passes between the two.
Expires(ttl, d) == ttl - d

\* mutant: every Watch of a tracked key counts as a change
UnchangedNever(it, value) == FALSE

\* watch, lines 56-59: the comparison that decides "unchanged"
Unchanged(it, value) == it.Value = value

\* mutant: an unchanged Watch still extends the lifetime
KeptTouched(it, value, expires) == [it EXCEPT !.Expires = expires]

\* watch, lines 57-59: an unchanged value returns before any assignment
Kept(it, value, expires) == it

\* mutant: a refresh stores the value but not the new expiration
RefreshedValueOnly(it, value, expires) == [it EXCEPT !.Value = value]

\* watch, lines 61-63: the in-place update of a tracked item
Refreshed(it, value, expires) ==
  [it EXCEPT !.Value = value, !.Expires = expires, !.removed = FALSE]

\* Monitor.Watch / watch, lines 44-79
Watch(k, v, d) ==
  /\ ~mu
  /\ LET e == Expires(DefaultTTL, d)
         it == items[k]
     IN IF it # Nil
        THEN IF Unchanged(mem[it], v)
             THEN /\ mem' = [mem EXCEPT ![it] = Kept(@, v, e)]
                  /\ ev' = Ev("Watch", k, v, FALSE)
                  /\ lastWatch' = [lastWatch EXCEPT ![k].value = v]
                  /\ UNCHANGED <<items, heap, created, live>>
             ELSE LET m2 == [mem EXCEPT ![it] = Refreshed(@, v, e)]
                  IN /\ mem' = m2
                     /\ heap' = HeapFix(m2, heap, FixIndex(heap, it))
                     /\ ev' = Ev("Watch", k, v, TRUE)
                     /\ lastWatch' = [lastWatch EXCEPT ![k] =
                          [value |-> v, expires |-> e, refreshed |-> TRUE]]
                     /\ UNCHANGED <<items, created, live>>
        ELSE LET newItem == TotalCreated + 1     \* a fresh address
                 m2 == [mem EXCEPT ![newItem] =
                          [Key |-> k, Value |-> v, Expires |-> e,
                           removed |-> FALSE]]
             IN /\ mem' = m2
                /\ items' = [items EXCEPT ![k] = newItem]
                /\ heap' = HeapPush(m2, heap, newItem)
                /\ created' = [created EXCEPT ![k] = @ + 1]
                /\ live' = [live EXCEPT ![k] = TRUE]
                /\ lastWatch' = [lastWatch EXCEPT ![k] =
                     [value |-> v, expires |-> e, refreshed |-> FALSE]]
                /\ ev' = Ev("Watch", k, v, TRUE)
  /\ UNCHANGED <<mu, expiredCh, tickerC, phase, ctxDone, pc, now, failed, sent>>

\* mutant: Get hides an entry whose expiration has passed
GetResultUnexpired(key) ==
  IF items[key] # Nil /\ ~mem[items[key]].removed
     /\ mem[items[key]].Expires > 0
  THEN [value |-> mem[items[key]].Value,
        expires |-> mem[items[key]].Expires, exists |-> TRUE]
  ELSE [value |-> 0, expires |-> 0, exists |-> FALSE]

\* Monitor.Get, lines 87-91: what Get(key) returns in the current state
GetResult(key) ==
  IF items[key] # Nil /\ ~mem[items[key]].removed
  THEN [value |-> mem[items[key]].Value,
        expires |-> mem[items[key]].Expires, exists |-> TRUE]
  ELSE [value |-> 0, expires |-> 0, exists |-> FALSE]

\* Monitor.Get: takes the lock, reads, changes nothing
Get(k) ==
  /\ ~mu
  /\ GetResult(k).exists \in BOOLEAN
  /\ UNCHANGED vars

\* mutant: Remove also takes the head of the queue out
RemovePopsHead(k) ==
  /\ ~mu
  /\ IF items[k] # Nil
     THEN /\ mem' = [mem EXCEPT ![items[k]].removed = TRUE]
          /\ items' = [items EXCEPT ![k] = Nil]
          /\ heap' = HeapPop(mem, heap)
     ELSE UNCHANGED <<mem, items, heap>>
  /\ live' = [live EXCEPT ![k] = FALSE]
  /\ lastWatch' = [lastWatch EXCEPT ![k] = NoWatch]
  /\ ev' = Ev("Remove", NoKey, 0, items[k] # Nil)
  /\ UNCHANGED <<mu, expiredCh, tickerC, phase, ctxDone, pc, now, failed,
                 created, sent>>

\* mutant: Remove deletes the key from the map without the tombstone
RemoveNoTombstone(k) ==
  /\ ~mu
  /\ items' = [items EXCEPT ![k] = Nil]
  /\ live' = [live EXCEPT ![k] = FALSE]
  /\ lastWatch' = [lastWatch EXCEPT ![k] = NoWatch]
  /\ ev' = Ev("Remove", NoKey, 0, items[k] # Nil)
  /\ UNCHANGED <<mem, heap, mu, expiredCh, tickerC, phase, ctxDone, pc, now,
                 failed, created, sent>>

\* mutant: Remove sets the tombstone and leaves the key in the map
RemoveKeepsEntry(k) ==
  /\ ~mu
  /\ IF items[k] # Nil
     THEN mem' = [mem EXCEPT ![items[k]].removed = TRUE]
     ELSE UNCHANGED mem
  /\ live' = [live EXCEPT ![k] = FALSE]
  /\ lastWatch' = [lastWatch EXCEPT ![k] = NoWatch]
  /\ ev' = Ev("Remove", NoKey, 0, items[k] # Nil)
  /\ UNCHANGED <<items, heap, mu, expiredCh, tickerC, phase, ctxDone, pc, now,
                 failed, created, sent>>

\* Monitor.Remove
Remove(k) ==
  /\ ~mu
  /\ IF items[k] # Nil
     THEN /\ mem' = [mem EXCEPT ![items[k]].removed = TRUE]
          /\ items' = [items EXCEPT ![k] = Nil]
     ELSE UNCHANGED <<mem, items>>
  /\ live' = [live EXCEPT ![k] = FALSE]
  /\ lastWatch' = [lastWatch EXCEPT ![k] = NoWatch]
  /\ ev' = Ev("Remove", NoKey, 0, items[k] # Nil)
  /\ UNCHANGED <<heap, mu, expiredCh, tickerC, phase, ctxDone, pc, now, failed,
                 created, sent>>

\* ------------------------------------------------------ the goroutine run
\* context cancellation (the caller of Start cancels ctx)
Cancel ==
  /\ ~ctxDone
  /\ ctxDone' = TRUE
  /\ ev' = Other
  /\ UNCHANGED <<mem, items, heap, mu, expiredCh, tickerC, phase, pc, now,
                 failed, created, sent, live, lastWatch>>

\* run, case <-m.checkTicker.C, then checkExpirations line 126: now := time.Now()
RunTick ==
  /\ pc = "idle"
  /\ tickerC
  /\ tickerC' = FALSE
  /\ now' = 0
  /\ failed' = FALSE
  /\ pc' = "lock"
  /\ ev' = Other
  /\ UNCHANGED <<mem, items, heap, mu, expiredCh, phase, ctxDone, created,
                 sent, live, lastWatch>>

\* run, case <-ctx.Done(): m.checkTicker.Stop(); return
RunDone ==
  /\ pc = "idle"
  /\ ctxDone
  /\ pc' = "stopped"
  /\ ev' = Other
  /\ UNCHANGED <<mem, items, heap, mu, expiredCh, tickerC, phase, ctxDone, now,
                 failed, created, sent, live, lastWatch>>

\* checkExpirations, line 128: m.mu.Lock()
SweepLock ==
  /\ pc = "lock"
  /\ ~mu
  /\ mu' = TRUE
  /\ pc' = "loop"
  /\ ev' = Other
  /\ UNCHANGED <<mem, items, heap, expiredCh, tickerC, phase, ctxDone, now,
                 failed, created, sent, live, lastWatch>>

\* mutant: the head is taken whether or not it is due
NotDueNever(it, t) == FALSE

\* checkExpirations, line 133: it.Expires.After(now)
NotDue(it, t) == it.Expires > t

\* mutant: the popped item is not re-validated
CurrentAlways(its, m, p) == TRUE

\* mutant: the validity test is negated
CurrentNegated(its, m, p) == m[p].removed \/ its[m[p].Key] # p

\* checkExpirations, line 139: !it.removed && m.items[it.Key] == it
Current(its, m, p) == ~m[p].removed /\ its[m[p].Key] = p

\* checkExpirations, lines 131-135: the loop goes on (the head exists and is due)
HeadDue == IF Len(heap) = 0 THEN FALSE ELSE ~NotDue(mem[heap[1]], now)

\* checkExpirations, lines 131-136 and 148: the loop ends, the lock is released
SweepEnd ==
  /\ pc = "loop"
  /\ ~HeadDue
  /\ pc' = "idle"
  /\ mu' = FALSE
  /\ now' = 0
  /\ ev' = Ev("SweepEnd", NoKey, 0, ~failed)
  /\ UNCHANGED <<mem, items, heap, expiredCh, tickerC, phase, ctxDone, failed,
                 created, sent, live, lastWatch>>

\* mutant: a key that was sent stays tracked and queued
SelectRedeliver(ch, its, m, h, it) ==
  IF Len(ch) < ChanCap
  THEN [ok |-> TRUE, ch |-> Append(ch, m[it].Key), items |-> its,
        heap |-> HeapPush(m, h, it)]
  ELSE [ok |-> FALSE, ch |-> ch, items |-> its, heap |-> HeapPush(m, h, it)]

\* mutant: a key that cannot be sent is dropped from the queue
SelectDrop(ch, its, m, h, it) ==
  IF Len(ch) < ChanCap
  THEN [ok |-> TRUE, ch |-> Append(ch, m[it].Key),
        items |-> [its EXCEPT ![m[it].Key] = Nil], heap |-> h]
  ELSE [ok |-> FALSE, ch |-> ch, items |-> its, heap |-> h]

\* checkExpirations, lines 140-145: the non-blocking send of it.Key; what the
\* select leaves in the channel, the map and the heap (h is the heap after Pop)
Select(ch, its, m, h, it) ==
  IF Len(ch) < ChanCap
  THEN \* case m.expiredCh <- it.Key: delete(m.items, it.Key)
       [ok |-> TRUE, ch |-> Append(ch, m[it].Key),
        items |-> [its EXCEPT ![m[it].Key] = Nil], heap |-> h]
  ELSE \* default: heap.Push(&m.heap, it)
       [ok |-> FALSE, ch |-> ch, items |-> its, heap |-> HeapPush(m, h, it)]

\* checkExpirations, lines 131-147: one iteration of the loop on a due head
SweepStep ==
  /\ pc = "loop"
  /\ HeadDue
  /\ LET it == heap[1]
         k == mem[it].Key
         h1 == HeapPop(mem, heap)
         s == Select(expiredCh, items, mem, h1, it)
     IN IF Current(items, mem, it)
        THEN /\ expiredCh' = s.ch
             /\ items' = s.items
             /\ heap' = s.heap
             /\ mem' = Collect(mem, s.items, s.heap)
             /\ ev' = Ev("Send", k, 0, s.ok)
             /\ IF Len(s.ch) > Len(expiredCh)
                THEN /\ sent' = [sent EXCEPT ![k] = @ + 1]
                     /\ live' = [live EXCEPT ![k] = FALSE]
                     /\ lastWatch' = [lastWatch EXCEPT ![k] =
                          [NoWatch EXCEPT !.refreshed = lastWatch[k].refreshed]]
                     /\ UNCHANGED failed
                ELSE /\ failed' = TRUE
                     /\ UNCHANGED <<sent, live, lastWatch>>
        ELSE \* a stale reference: nothing is sent, the item is dropped
             /\ heap' = h1
             /\ mem' = Collect(mem, items, h1)
             /\ ev' = Ev("Drop", k, 0, FALSE)
             /\ UNCHANGED <<items, expiredCh, sent, live, lastWatch, failed>>
  /\ UNCHANGED <<mu, tickerC, phase, ctxDone, pc, now, created>>

\* ------------------------------------------------------- the environment
\* the consumer receives from the notification channel
Receive ==
  /\ Len(expiredCh) > 0
  /\ expiredCh' = Tail(expiredCh)
  /\ ev' = Other
  /\ UNCHANGED <<mem, items, heap, mu, tickerC, phase, ctxDone, pc, now, failed,
                 created, sent, live, lastWatch>>

\* the instants the state holds, one time unit later
Instants ==
  {mem[p].Expires - 1 : p \in {q \in Ptrs : mem[q] # NoItem}}
    \cup (IF pc \in {"lock", "loop"} THEN {now - 1} ELSE {})
    \cup {lastWatch[k].expires - 1 : k \in {x \in Keys : items[x] # Nil}}

\* an instant one time unit later: the distance of a future instant shrinks by
\* one; the instants that have passed keep their order as ranks 0, -1, ...
Later(t) ==
  IF t - 1 > 0 THEN t - 1
  ELSE 0 - Cardinality({u \in Instants : u <= 0 /\ u > t - 1})

\* one time unit passes; the ticker fires every CheckInterval unless stopped
ClockTick ==
  /\ mem' = [p \in Ptrs |-> IF mem[p] = NoItem THEN NoItem
                            ELSE [mem[p] EXCEPT !.Expires = Later(@)]]
  /\ now' = IF pc \in {"lock", "loop"} THEN Later(now) ELSE now
  /\ lastWatch' = [k \in Keys |-> IF items[k] = Nil THEN lastWatch[k]
                     ELSE [lastWatch[k] EXCEPT !.expires = Later(@)]]
  /\ phase' = (phase + 1) % CheckInterval
  /\ tickerC' = (tickerC \/ (phase' = 0 /\ pc # "stopped"))
  /\ ev' = Other
  /\ UNCHANGED <<items, heap, mu, expiredCh, ctxDone, pc, failed, created, sent,
                 live>>

\* ------------------------------------------------------- specifications
\* Spec: callers use two keys and call Watch, Get and Remove in any order and
\* concurrently (a Watch may reach the lock late); at most MaxItems items are
\* ever allocated.
SomeKeys == {"a", "b"}
CanAllocate(k) == IF items[k] # Nil THEN TRUE ELSE TotalCreated < MaxItems

Next ==
  \/ \E k \in SomeKeys, v \in Values, d \in Delays :
        CanAllocate(k) /\ Watch(k, v, d)
  \/ \E k \in SomeKeys : Get(k)
  \/ \E k \in SomeKeys : Remove(k)
  \/ RunTick
  \/ SweepLock
  \/ SweepStep
  \/ SweepEnd
  \/ Receive
  \/ ClockTick

Spec == Init /\ [][Next]_vars

\* LiveSpec: callers watch each of the four keys once, in the order a, b, c,
\* d, and then refresh a, b and c (a Watch with a new value) at any time; d is
\* never refreshed, nobody calls Remove, and a key that has expired is not
\* watched again.  The goroutine run is prompt: it finishes the sweep of a
\* tick before the next tick.  Time passes, run is scheduled and the consumer
\* receives: the fairness the runtime, the ticker and a consumer that keeps
\* receiving provide.
Before(k) == {j \in Keys : <<j, k>> \in {<<"a", "b">>, <<"a", "c">>, <<"a", "d">>,
                                         <<"b", "c">>, <<"b", "d">>, <<"c", "d">>}}
FirstWatch(k, v) ==
  /\ items[k] = Nil
  /\ created[k] = 0
  /\ \A j \in Before(k) : created[j] > 0
  /\ v = 1
Refresh(k, v) ==
  /\ items[k] # Nil
  /\ k # "d"
  /\ mem[items[k]].Value # v
Prompt == ~tickerC /\ pc = "idle"

LiveNext ==
  \/ \E k \in Keys, v \in Values : FirstWatch(k, v) /\ Watch(k, v, 0)
  \/ \E k \in Keys, v \in Values : Refresh(k, v) /\ Watch(k, v, 0)
  \/ RunTick
  \/ SweepLock
  \/ SweepStep
  \/ SweepEnd
  \/ Receive
  \/ Prompt /\ ClockTick

LiveSpec ==
  /\ Init
  /\ [][LiveNext]_vars
  /\ WF_vars(Prompt /\ ClockTick)
  /\ WF_vars(RunTick)
  /\ WF_vars(SweepLock)
  /\ WF_vars(SweepStep)
  /\ WF_vars(SweepEnd)
  /\ WF_vars(Receive)

\* StallSpec: the callers of Spec, and the caller of Start may cancel the
\* context.  The goroutine run is scheduled and time passes (weak fairness of
\* its steps and of the clock); a select with both cases ready takes either,
\* so the ctx.Done() case is taken if it is ready again and again (strong
\* fairness).  Nothing is assumed of the callers or of the consumer, which
\* may stop receiving.
StallNext ==
  \/ \E k \in SomeKeys, v \in Values, d \in Delays :
        CanAllocate(k) /\ Watch(k, v, d)
  \/ \E k \in SomeKeys : Get(k)
  \/ \E k \in SomeKeys : Remove(k)
  \/ Cancel
  \/ RunTick
  \/ RunDone
  \/ SweepLock
  \/ SweepStep
  \/ SweepEnd
  \/ Receive
  \/ ClockTick

StallSpec ==
  /\ Init
  /\ [][StallNext]_vars
  /\ WF_vars(ClockTick)
  /\ WF_vars(RunTick)
  /\ SF_vars(RunDone)
  /\ WF_vars(SweepLock)
  /\ WF_vars(SweepStep)
  /\ WF_vars(SweepEnd)

\* ------------------------------------------------------------ properties
\* a notification for k is sent by this step
Sends(k) == sent'[k] > sent[k]
\* the last step was a Watch(k, .) that returned true (created or refreshed k)
Watched(k) == ev.op = "Watch" /\ ev.key = k /\ ev.ok
\* the items of key k that are allocated and not tombstoned
LiveItems(k) == {p \in Ptrs : mem[p].Key = k /\ ~mem[p].removed}

\* C1 (no duplicates): the notifications sent for a key never exceed the Watch
\* calls that created an entry for it.
C1_NoDuplicates == \A k \in Keys : sent[k] <= created[k]
\* a key watched once was sent once, in a sweep in which a send had failed
C1_Witness ==
  /\ ev.op = "Send" /\ ev.ok /\ failed
  /\ created[ev.key] = 1 /\ sent[ev.key] = 1

\* C2 (eventual delivery): a tracked key that is not refreshed or removed
\* again eventually leaves the table by a notification: always, a tracked key
\* is eventually refreshed again or no longer tracked.
C2_EventualDelivery ==
  \A k \in Keys : (items[k] # Nil) ~> (items[k] = Nil \/ Watched(k))

\* C3 (no early notification): a step that sends k finds k's entry in the
\* table with Expires at or before the sweep's now, and the expiration set by
\* the latest Watch of k that returned true has passed.
C3_NoEarlyNotification ==
  [][\A k \in Keys : Sends(k) =>
        /\ items[k] # Nil
        /\ mem[items[k]].Expires <= now
        /\ now <= 0
        /\ lastWatch[k].expires <= 0]_vars
\* a key that was refreshed has been sent
C3_Witness == ev.op = "Send" /\ ev.ok /\ lastWatch[ev.key].refreshed

\* C4 (removal suppresses notification): a step sends k only while k is live:
\* watched, and since the Watch that created its entry not removed.
C4_RemovalSuppresses == [][\A k \in Keys : Sends(k) => live[k]]_vars
\* the sweep popped the due entry of a removed key and sent nothing for it
C4_Witness ==
  /\ ev.op = "Drop" /\ ~live[ev.key]
  /\ created[ev.key] = 1 /\ sent[ev.key] = 0

\* C5 (timely expiration): when a sweep in which no send failed ends, no key
\* in the table has an Expires at or before the sweep's now.
C5_TimelyExpiration ==
  [][(pc = "loop" /\ pc' = "idle" /\ ~failed)
       => \A k \in Keys : items'[k] # Nil => mem'[items'[k]].Expires > now]_vars

\* C6 (Watch return value): Watch(k, v) returns true exactly when, before the
\* call, k is not in the table or is stored with a value other than v.
C6_WatchReturn ==
  [][ev'.op = "Watch" =>
       (ev'.ok <=> (\/ items[ev'.key] = Nil
                    \/ mem[items[ev'.key]].Value # ev'.value))]_vars
\* a Watch returned false
C6_Witness == ev.op = "Watch" /\ ~ev.ok /\ created[ev.key] = 1

\* C7 (Get reflects the latest Watch): for a key in the table Get returns the
\* value of the latest Watch of the key and the expiration computed by the
\* latest Watch of the key that returned true; a key has at most one live item.
C7_GetLatestWatch ==
  \A k \in Keys :
    /\ items[k] # Nil =>
         /\ GetResult(k).exists
         /\ GetResult(k).value = lastWatch[k].value
         /\ GetResult(k).expires = lastWatch[k].expires
    /\ Cardinality(LiveItems(k)) <= 1
\* a key was refreshed, its TTL has since passed, and it was watched again
\* with the value it has
C7_Witness ==
  /\ ev.op = "Watch" /\ ~ev.ok
  /\ lastWatch[ev.key].refreshed
  /\ GetResult(ev.key).expires <= 0

\* C8 (Get found / not found): Get(k) finds k exactly when k is live: watched,
\* and since the Watch that created its entry neither removed nor sent.
C8_GetFound == \A k \in Keys : GetResult(k).exists <=> live[k]
\* Get finds a key whose expiration has passed and that was not sent yet,
\* and does not find a key that was sent
C8_Witness ==
  /\ ~mu
  /\ \E k \in Keys : GetResult(k).exists /\ GetResult(k).expires <= 0
  /\ \E k \in Keys : ~GetResult(k).exists /\ sent[k] > 0

\* C9 (unchanged Watch is a no-op): a Watch that returns false leaves the
\* items, the table, the queue and the channel as they were.
C9_UnchangedNoOp ==
  [][(ev'.op = "Watch" /\ ~ev'.ok) =>
       UNCHANGED <<mem, items, heap, expiredCh>>]_vars
\* an entry never refreshed was watched again with its value after its
\* expiration passed, and is still due
C9_Witness ==
  /\ ev.op = "Watch" /\ ~ev.ok
  /\ ~lastWatch[ev.key].refreshed
  /\ mem[items[ev.key]].Expires <= 0

\* C10 (a failed send drops nothing): a step of the sweep whose send fails
\* leaves the table, every item and the channel as they were and the popped
\* item in the queue, which keeps its length.
C10_FailedSendKeeps ==
  [][(ev'.op = "Send" /\ ~ev'.ok) =>
       /\ UNCHANGED <<mem, items, expiredCh>>
       /\ items[ev'.key] = heap[1]
       /\ heap[1] \in InHeap(heap')
       /\ Len(heap') = Len(heap)]_vars
\* a send failed and the key is still tracked
C10_Witness ==
  /\ ev.op = "Send" /\ ~ev.ok
  /\ items[ev.key] # Nil
  /\ Len(expiredCh) = ChanCap

\* C11 (callers are never blocked): the sweep never holds the lock for ever,
\* whatever the consumer does: whenever the lock is held it is eventually
\* free, so that a pending Watch, Get or Remove can take it.
C11_CallersNotBlocked == mu ~> ~mu

\* C12 (cancellation stops the scheduler): once the context is cancelled the
\* goroutine run eventually stops the ticker and returns, whatever the state
\* of the channel and of the queue.
C12_CancelStops == ctxDone ~> (pc = "stopped")

\* C13 (the sweep stops on a failed send): once a send of a sweep has failed,
\* the sweep pops nothing and attempts no send until the next tick.
C13_StopsOnFailedSend ==
  [][failed => ~(ev'.op \in {"Send", "Drop"})]_vars

\* C14 (queue order): in every state the queue is a min-heap on Expires: no
\* element expires before its parent.
C14_HeapOrder ==
  \A i \in 2..Len(heap) :
    mem[heap[i]].Expires >= mem[heap[i \div 2]].Expires

\* the item p is a stale reference: tombstoned, or not its key's table entry
Stale(p) == mem[p].removed \/ items[mem[p].Key] # p
\* the keys in the table
Tracked == {k \in Keys : items[k] # Nil}

\* C15 (stale references are discarded silently): a step of the sweep on a
\* due head that is stale sends nothing, leaves the table and its entries as
\* they were, takes the head out of the queue for good, and the sweep goes on.
C15_StaleDiscarded ==
  [][(pc = "loop" /\ HeadDue /\ Stale(heap[1]) /\ ev'.op \in {"Send", "Drop"})
       => /\ UNCHANGED <<items, expiredCh, sent>>
          /\ \A k \in Tracked : mem'[items[k]] = mem[items[k]]
          /\ heap[1] \notin InHeap(heap')
          /\ Len(heap') = Len(heap) - 1
          /\ pc' = "loop"]_vars
\* the sweep dropped the stale entry of a key that was removed and then
\* watched again; the key's new entry is in the table and in the queue
C15_Witness ==
  /\ ev.op = "Drop"
  /\ created[ev.key] = 2
  /\ items[ev.key] \in InHeap(heap)

\* C16 (Remove of an untracked key is a no-op): a Remove of a key that is not
\* in the table changes no item, nor the table, the queue or the channel; a
\* Remove of a tracked key tombstones that key's entry and takes it out of the
\* table, and changes nothing else.
C16_RemoveFrame ==
  [][ev'.op = "Remove" =>
       /\ UNCHANGED <<heap, expiredCh>>
       /\ ~ev'.ok => UNCHANGED <<mem, items>>
       /\ ev'.ok => \E k \in Tracked :
                      /\ items' = [items EXCEPT ![k] = Nil]
                      /\ mem' = [mem EXCEPT ![items[k]].removed = TRUE]]_vars
\* a Remove of an untracked key while another key is tracked and queued
C16_Witness ==
  /\ ev.op = "Remove" /\ ~ev.ok
  /\ Tracked # {}
  /\ Len(heap) > 0

\* C17 (table/queue consistency): no item is in the queue twice, every entry
\* of the table is in the queue, and every queue entry that is not the table
\* entry of its key is tombstoned.
C17_TableQueueConsistent ==
  /\ \A i, j \in 1..Len(heap) : heap[i] = heap[j] => i = j
  /\ \A k \in Tracked : items[k] \in InHeap(heap)
  /\ \A p \in InHeap(heap) : items[mem[p].Key] # p => mem[p].removed
\* the queue holds the tombstoned entry of a removed key next to a table entry
C17_Witness ==
  /\ ev.op = "Remove" /\ ev.ok
  /\ \E p \in InHeap(heap) : mem[p].removed
  /\ \E k \in Tracked : items[k] \in InHeap(heap)

\* C18 (no tombstoned entry in the table): no entry of the table is
\* tombstoned, so that Watch never updates a tombstoned item (a Watch of a
\* removed key allocates a new one) and Get finds exactly the keys of the table.
C18_NoTombstoneInTable ==
  /\ \A k \in Tracked : ~mem[items[k]].removed
  /\ \A k \in Keys : GetResult(k).exists <=> k \in Tracked
\* a removed key was watched again: it has a new entry, and its tombstoned
\* entry is still queued
C18_Witness ==
  /\ ev.op = "Watch" /\ ev.ok
  /\ created[ev.key] = 2
  /\ \E p \in InHeap(heap) : mem[p].removed /\ mem[p].Key = ev.key
====
